---- MODULE Spec2Model ----
(***************************************************************************)
(* Model of the snake simulation engine of learn2slither (engine.py):     *)
(* the board dictionary {snake, greens, red, head_dir, game_over} and the *)
(* three entry points init_board, step_forward and change_dir.            *)
(*                                                                         *)
(* A position is a pair <<x, y>>.  The snake and the greens are Python    *)
(* lists and are modelled as sequences (index 1 = Python index 0).        *)
(* random.randint / random.choice are nondeterministic choices; a         *)
(* rejection loop `while bad(c): c = draw()` ends with any c that is not  *)
(* bad, so it is modelled by a choice among the accepted values.          *)
(*                                                                         *)
(* The last part models game_loop (src/main.py), the driver that owns an *)
(* engine and calls it from key presses and from a timer.  Its engine's   *)
(* reset_board, step_forward and change_dir act as init_board,            *)
(* step_forward and change_dir of engine.py.                              *)
(***************************************************************************)
EXTENDS Integers, Sequences, FiniteSets, TLC

\* Largest side of the square grid explored; games are played on this side.
GridSize == 3

\* Most whole step periods the time accumulator of game_loop holds.
MaxAccum == 2

\* The step_forward calls on one board after which game_loop is followed no
\* further.
MaxSteps == 2

\* The board, then: grid_size, the argument every entry point is called with;
\* pc, the statement an init_board call is at ("done" once it has returned);
\* outcome, the branch the last call took; asked, the last change_dir argument.
VARIABLES snake, greens, red, head_dir, game_over, grid_size, pc, outcome, asked

\* The locals of game_loop: at, the statement the loop is at; running and
\* step_mode; step_accum, counted in whole step periods at the current speed
\* (step_period / speed_mult); steps, the step_forward calls issued on the
\* current board.
VARIABLES at, running, step_mode, step_accum, steps

loop == <<at, running, step_mode, step_accum, steps>>

vars == <<snake, greens, red, head_dir, game_over, grid_size, pc, outcome, asked,
          loop>>

board == <<snake, greens, red, head_dir, game_over>>

----------------------------------------------------------------------------
\* Constants and pure helpers of engine.py

Dirs == {"UP", "DOWN", "LEFT", "RIGHT"}

DIR == [d \in Dirs |->
          CASE d = "UP"    -> <<0, -1>>
            [] d = "DOWN"  -> <<0, 1>>
            [] d = "LEFT"  -> <<-1, 0>>
            [] d = "RIGHT" -> <<1, 0>>]

OPPOSITE == [d \in Dirs |->
               CASE d = "UP"    -> "DOWN"
                 [] d = "DOWN"  -> "UP"
                 [] d = "LEFT"  -> "RIGHT"
                 [] d = "RIGHT" -> "LEFT"]

\* The values random.randint(0, grid_size - 1) can return, twice.
Cells == (0 .. grid_size - 1) \X (0 .. grid_size - 1)

\* Python `c in s` for a list s.
InList(c, s) == \E i \in 1 .. Len(s) : s[i] = c

\* Python `s[:-k]`.
DropLast(s, k) == IF Len(s) > k THEN SubSeq(s, 1, Len(s) - k) ELSE << >>

\* Python list.remove(c): drops the first occurrence of c.
RECURSIVE Remove(_, _)
Remove(s, c) ==
    IF s = << >> THEN << >>
    ELSE IF Head(s) = c THEN Tail(s)
    ELSE <<Head(s)>> \o Remove(Tail(s), c)

\* (x + dx, y + dy)
Add(p, v) == <<p[1] + v[1], p[2] + v[2]>>

\* Faulty variant of the bounds test: the last row and column count as outside.
OutOfBoundsOffByOne(n) ==
    n[1] < 0 \/ n[1] >= grid_size - 1 \/ n[2] < 0 \/ n[2] >= grid_size - 1

\* nx < 0 or nx >= grid_size or ny < 0 or ny >= grid_size
OutOfBounds(n) ==
    n[1] < 0 \/ n[1] >= grid_size \/ n[2] < 0 \/ n[2] >= grid_size

None == "None"

\* The engine is driven directly: no game_loop is running.
NoLoop ==
    /\ at = None
    /\ running = FALSE
    /\ step_mode = FALSE
    /\ step_accum = 0
    /\ steps = 0

\* Faulty variant of get_neck_dir: a snake of one cell is given the direction
\* behind its heading as neck direction.
get_neck_dir_behind(s) ==
    IF Len(s) < 2 THEN OPPOSITE[head_dir]
    ELSE LET dx == s[2][1] - s[1][1]
             dy == s[2][2] - s[1][2]
         IN  IF \E d \in Dirs : DIR[d] = <<dx, dy>>
             THEN CHOOSE d \in Dirs : DIR[d] = <<dx, dy>>
             ELSE None

\* get_neck_dir: direction from head to neck, None for a snake shorter than 2
\* or whose first two cells are not one unit step apart.
get_neck_dir(s) ==
    IF Len(s) < 2 THEN None
    ELSE LET dx == s[2][1] - s[1][1]
             dy == s[2][2] - s[1][2]
         IN  IF \E d \in Dirs : DIR[d] = <<dx, dy>>
             THEN CHOOSE d \in Dirs : DIR[d] = <<dx, dy>>
             ELSE None

----------------------------------------------------------------------------
\* init_board / place_snake

\* The steps the inner loop of place_snake can end with from the list s:
\* in bounds and not on s.
WalkSteps(s) ==
    {n \in {Add(s[Len(s)], DIR[d]) : d \in Dirs} :
        ~OutOfBounds(n) /\ ~InList(n, s)}

\* The lists one pass of the outer loop of place_snake can build.
Walks ==
    UNION {UNION {{<<h, a, b>> : b \in WalkSteps(<<h, a>>)} :
                    a \in WalkSteps(<<h>>)} : h \in Cells}

\* Faulty variant of the test that ends place_snake: red is not looked at.
AvoidsGreens(s, green1, green2, r) ==
    ~InList(green1, s) /\ ~InList(green2, s)

\* The test that ends the outer loop of place_snake.
AvoidsApples(s, green1, green2, r) ==
    ~InList(green1, s) /\ ~InList(green2, s) /\ ~InList(r, s)

\* place_snake: the walk is redone until it avoids the three apples.
place_snake(green1, green2, r) ==
    {s \in Walks : AvoidsApples(s, green1, green2, r)}

\* Faulty variant of the head_dir loop condition: the snake is not looked at.
BadHeadingWallsOnly(s, d) == OutOfBounds(Add(s[1], DIR[d]))

\* The condition of the while loop on head_dir in init_board.
BadHeading(s, d) ==
    OutOfBounds(Add(s[1], DIR[d])) \/ InList(Add(s[1], DIR[d]), s)

\* The head_dir init_board returns for snake s.
InitHeadings(s) ==
    IF ~BadHeading(s, OPPOSITE[get_neck_dir(s)])
    THEN {OPPOSITE[get_neck_dir(s)]}
    ELSE {d \in Dirs : ~BadHeading(s, d)}

\* The boards init_board(GridSize) returns.
Init ==
    /\ grid_size = GridSize
    /\ pc = "done"
    /\ asked = None
    /\ NoLoop
    /\ \E green1 \in Cells :
      \E green2 \in Cells \ {green1} :
        \E r \in Cells \ {green1, green2} :
          \E s \in place_snake(green1, green2, r) :
            \E d \in InitHeadings(s) :
              /\ snake = s
              /\ greens = <<green1, green2>>
              /\ red = r
              /\ head_dir = d
              /\ game_over = FALSE
              /\ outcome = "init"

----------------------------------------------------------------------------
\* step_forward

\* nx, ny = hx + dx, hy + dy
NextCell(s, d) == Add(s[1], DIR[d])

\* Faulty variant of the collision test: the walls are not looked at.
CollisionSnakeOnly(n, s) == InList(n, s)

\* Faulty variants of the collision test: walls only, and every snake cell
\* but the tail.
CollisionWallsOnly(n, s) == OutOfBounds(n)

CollisionSparesTail(n, s) == OutOfBounds(n) \/ InList(n, DropLast(s, 1))

\* The collision test of step_forward.
Collision(n, s) == OutOfBounds(n) \/ InList(n, s)

\* The condition of the rejection loops of step_forward: the drawn cell c is
\* drawn again while it is on a green or on the (pre-move) snake, unless the
\* snake fills the grid.
Rejected(c, gs, s) ==
    (InList(c, gs) \/ InList(c, s)) /\ Len(s) # grid_size * grid_size

\* Faulty variant of the rejection loops: the cell the head moves onto is
\* rejected too.
RespawnOffNewHead(gs, s) ==
    {c \in Cells : ~Rejected(c, gs, s) /\ c # NextCell(s, head_dir)}

\* The cells a rejection loop of step_forward can end with.
Respawn(gs, s) == {c \in Cells : ~Rejected(c, gs, s)}

\* Faulty variants of new_snake: growth that drops the tail, a shrink that
\* drops one cell only, a plain move that keeps the tail.
GrowSnakeDropsTail(n, s) == <<n>> \o DropLast(s, 1)

ShrinkSnakeDropsOne(n, s) == <<n>> \o DropLast(s, 1)

MoveSnakeKeepsTail(n, s) == <<n>> \o s

\* new_snake in the three non-colliding branches.
GrowSnake(n, s) == <<n>> \o s

ShrinkSnake(n, s) == <<n>> \o DropLast(s, 2)

MoveSnake(n, s) == <<n>> \o DropLast(s, 1)

\* Faulty variant of the collision branch: the snake is turned around.
StepCollisionTurnsBack ==
    /\ game_over' = TRUE
    /\ head_dir' = OPPOSITE[head_dir]
    /\ outcome' = "collision"
    /\ UNCHANGED <<snake, greens, red>>

\* Lines 66-68: collision, game over, nothing else is written.
StepCollision ==
    /\ game_over' = TRUE
    /\ outcome' = "collision"
    /\ UNCHANGED <<snake, greens, red, head_dir>>

\* Lines 71-77 then 88: the green on n is removed, a new one is drawn and
\* appended, the snake grows.
StepGrow(n) ==
    \E new_green \in Respawn(Remove(greens, n), snake) :
        /\ greens' = Remove(greens, n) \o <<new_green>>
        /\ snake' = GrowSnake(n, snake)
        /\ outcome' = "grow"
        /\ UNCHANGED <<red, head_dir, game_over>>

\* Faulty variants of the red branch: new_snake is stored before the length
\* test, and the length test is off by one.
StepShrinkMovesStarved(n) ==
    \E new_red \in Respawn(greens, snake) :
        /\ red' = new_red
        /\ snake' = ShrinkSnake(n, snake)
        /\ IF Len(snake) = 1
           THEN /\ game_over' = TRUE
                /\ outcome' = "starve"
           ELSE /\ outcome' = "shrink"
                /\ UNCHANGED game_over
        /\ UNCHANGED <<greens, head_dir>>

StepShrinkStarvesAtTwo(n) ==
    \E new_red \in Respawn(greens, snake) :
        /\ red' = new_red
        /\ IF Len(snake) <= 2
           THEN /\ game_over' = TRUE
                /\ outcome' = "starve"
                /\ UNCHANGED snake
           ELSE /\ snake' = ShrinkSnake(n, snake)
                /\ outcome' = "shrink"
                /\ UNCHANGED game_over
        /\ UNCHANGED <<greens, head_dir>>

\* Lines 78-85 then 88: red is drawn again first; a snake of one cell then
\* ends the game without moving, a longer one loses its last two cells.
StepShrink(n) ==
    \E new_red \in Respawn(greens, snake) :
        /\ red' = new_red
        /\ IF Len(snake) = 1
           THEN /\ game_over' = TRUE
                /\ outcome' = "starve"
                /\ UNCHANGED snake
           ELSE /\ snake' = ShrinkSnake(n, snake)
                /\ outcome' = "shrink"
                /\ UNCHANGED game_over
        /\ UNCHANGED <<greens, head_dir>>

\* Faulty variant of the plain move: it writes game_over = False.
StepMoveClearsGameOver(n) ==
    /\ snake' = MoveSnake(n, snake)
    /\ game_over' = FALSE
    /\ outcome' = "move"
    /\ UNCHANGED <<greens, red, head_dir>>

\* Lines 86-88: plain move.
StepMove(n) ==
    /\ snake' = MoveSnake(n, snake)
    /\ outcome' = "move"
    /\ UNCHANGED <<greens, red, head_dir, game_over>>

\* Faulty variant of step_forward: red is tested before the greens.
step_forward_red_first ==
    /\ pc = "done"
    /\ LET n == NextCell(snake, head_dir) IN
       IF Collision(n, snake) THEN StepCollision
       ELSE IF red = n THEN StepShrink(n)
       ELSE IF InList(n, greens) THEN StepGrow(n)
       ELSE StepMove(n)
    /\ asked' = None
    /\ UNCHANGED <<grid_size, pc>>

\* step_forward reads no game_over flag: it runs the same on a finished board.
step_forward ==
    /\ pc = "done"
    /\ LET n == NextCell(snake, head_dir) IN
       IF Collision(n, snake) THEN StepCollision
       ELSE IF InList(n, greens) THEN StepGrow(n)
       ELSE IF red = n THEN StepShrink(n)
       ELSE StepMove(n)
    /\ asked' = None
    /\ UNCHANGED <<grid_size, pc>>

----------------------------------------------------------------------------
\* change_dir

\* Faulty variants of change_dir: the request is compared with the opposite
\* of the heading instead of the neck direction, and it is not compared at all.
change_dir_vs_heading(new_dir) ==
    /\ pc = "done"
    /\ IF new_dir # OPPOSITE[head_dir]
       THEN head_dir' = new_dir
       ELSE UNCHANGED head_dir
    /\ outcome' = "dir"
    /\ asked' = new_dir
    /\ UNCHANGED <<snake, greens, red, game_over, grid_size, pc>>

change_dir_unguarded(new_dir) ==
    /\ pc = "done"
    /\ head_dir' = new_dir
    /\ outcome' = "dir"
    /\ asked' = new_dir
    /\ UNCHANGED <<snake, greens, red, game_over, grid_size, pc>>

change_dir(new_dir) ==
    /\ pc = "done"
    /\ IF new_dir # get_neck_dir(snake)
       THEN head_dir' = new_dir
       ELSE UNCHANGED head_dir
    /\ outcome' = "dir"
    /\ asked' = new_dir
    /\ UNCHANGED <<snake, greens, red, game_over, grid_size, pc>>

SetDirection == \E new_dir \in Dirs : change_dir(new_dir)

----------------------------------------------------------------------------

\* The engine's calls leave the caller's variables alone.
Next ==
    \/ step_forward /\ UNCHANGED loop
    \/ SetDirection /\ UNCHANGED loop

Spec == Init /\ [][Next]_vars

----------------------------------------------------------------------------
\* init_board, statement by statement, for every grid_size from 0 to GridSize.
\* A draw that a loop rejects leaves the call where it is.

InitCall ==
    /\ grid_size \in 0 .. GridSize
    /\ NoLoop
    /\ pc = "green1"
    /\ snake = << >>
    /\ greens = << >>
    /\ red = None
    /\ head_dir = None
    /\ game_over = None
    /\ outcome = "call"
    /\ asked = None

\* Line 15; random.randint(0, grid_size - 1) raises ValueError on an empty
\* range.
DrawGreen1 ==
    /\ pc = "green1"
    /\ IF grid_size <= 0
       THEN /\ pc' = "raised"
            /\ UNCHANGED greens
       ELSE \E c \in Cells :
               /\ greens' = <<c>>
               /\ pc' = "green2"
    /\ UNCHANGED <<snake, red, head_dir, game_over, grid_size, outcome, asked, loop>>

\* Lines 16-18.
DrawGreen2 ==
    /\ pc = "green2"
    /\ \E c \in Cells :
          IF greens[1] = c
          THEN UNCHANGED <<greens, pc>>
          ELSE /\ greens' = <<greens[1], c>>
               /\ pc' = "red"
    /\ UNCHANGED <<snake, red, head_dir, game_over, grid_size, outcome, asked, loop>>

\* Lines 19-21.
DrawRed ==
    /\ pc = "red"
    /\ \E c \in Cells :
          IF c = greens[1] \/ c = greens[2]
          THEN UNCHANGED <<red, pc>>
          ELSE /\ red' = c
               /\ pc' = "head"
    /\ UNCHANGED <<snake, greens, head_dir, game_over, grid_size, outcome, asked, loop>>

\* Line 43: a pass of the outer loop of place_snake starts a new list.
DrawHead ==
    /\ pc = "head"
    /\ \E c \in Cells : snake' = <<c>>
    /\ pc' = "walk"
    /\ UNCHANGED <<greens, red, head_dir, game_over, grid_size, outcome, asked, loop>>

\* Lines 45-52: one drawn direction of the inner loop, twice accepted.
WalkStep ==
    /\ pc = "walk"
    /\ \E d \in Dirs :
          LET n == Add(snake[Len(snake)], DIR[d]) IN
          IF n \in WalkSteps(snake)
          THEN /\ snake' = Append(snake, n)
               /\ pc' = IF Len(snake) = 2 THEN "check" ELSE "walk"
          ELSE UNCHANGED <<snake, pc>>
    /\ UNCHANGED <<greens, red, head_dir, game_over, grid_size, outcome, asked, loop>>

\* Lines 54-56, then 23-25: the list is returned and head_dir first set, or
\* the list is dropped and the walk redone.
CheckApples ==
    /\ pc = "check"
    /\ IF AvoidsApples(snake, greens[1], greens[2], red)
       THEN /\ head_dir' = OPPOSITE[get_neck_dir(snake)]
            /\ pc' = "heading"
            /\ UNCHANGED snake
       ELSE /\ snake' = << >>
            /\ pc' = "head"
            /\ UNCHANGED head_dir
    /\ UNCHANGED <<greens, red, game_over, grid_size, outcome, asked, loop>>

\* Lines 27-38: head_dir is drawn again while it is bad, then the board is
\* returned.
PickHeading ==
    /\ pc = "heading"
    /\ IF BadHeading(snake, head_dir)
       THEN /\ \E d \in Dirs : head_dir' = d
            /\ UNCHANGED <<pc, game_over, outcome>>
       ELSE /\ pc' = "done"
            /\ game_over' = FALSE
            /\ outcome' = "init"
            /\ UNCHANGED head_dir
    /\ UNCHANGED <<snake, greens, red, grid_size, asked, loop>>

init_board ==
    \/ DrawGreen1
    \/ DrawGreen2
    \/ DrawRed
    \/ DrawHead
    \/ WalkStep
    \/ CheckApples
    \/ PickHeading

InitSpec == InitCall /\ [][init_board]_vars

----------------------------------------------------------------------------
\* game_loop: one engine, driven by key presses (manual step mode) and by the
\* time accumulator (auto mode).  The board is built with grid side GridSize.
\* step_accum is counted in whole step periods, so `step_accum >= step_period /
\* speed_mult` reads step_accum >= 1 and a speed key, which changes the period
\* by a factor 1.1, moves the count by at most one.

engine == <<snake, greens, red, head_dir, game_over, grid_size, pc, outcome, asked>>

\* paused = False, and nothing assigns it again.
paused == FALSE

\* The frame goes on: the board has not had its MaxSteps steps yet.
Followed == steps < MaxSteps

\* Lines 7-21: the locals, then engine.reset_board(grid_size) is called.
LoopInit ==
    /\ grid_size = GridSize
    /\ pc = "green1"
    /\ snake = << >>
    /\ greens = << >>
    /\ red = None
    /\ head_dir = None
    /\ game_over = None
    /\ outcome = "call"
    /\ asked = None
    /\ at = "reset"
    /\ running = TRUE
    /\ step_mode = TRUE
    /\ step_accum = 0
    /\ steps = 0

\* return: the locals of game_loop, its engine among them, are dropped.
Return ==
    /\ at' = "exit"
    /\ running' = FALSE
    /\ step_mode' = FALSE
    /\ step_accum' = 0
    /\ steps' = 0
    /\ snake' = << >>
    /\ greens' = << >>
    /\ red' = None
    /\ head_dir' = None
    /\ game_over' = None
    /\ pc' = None
    /\ outcome' = "return"
    /\ asked' = None
    /\ UNCHANGED grid_size

\* Lines 21 and 83: engine.reset_board(grid_size) builds a board.
reset_board ==
    /\ at = "reset"
    /\ init_board

\* Lines 25-27, reached from line 21 and from the end of a frame: the loop
\* ends when running is off (line 98), else the frame's time is added.
FrameStart ==
    /\ at \in {"reset", "frame"}
    /\ pc = "done"
    /\ IF running
       THEN /\ \E c \in step_accum .. MaxAccum : step_accum' = c
            /\ at' = "events"
            /\ UNCHANGED <<running, step_mode, steps, engine>>
       ELSE Return

\* Lines 31-32.
Quit ==
    /\ at = "events"
    /\ Return

\* Lines 34-44: the pause menu; "resume" leaves the event loop.
KeySpace ==
    /\ at = "events"
    /\ Followed
    /\ ~paused
    /\ \E choice \in {"resume", "home", "quit"} :
          IF choice = "resume"
          THEN /\ step_accum' = 0
               /\ at' = "advance"
               /\ UNCHANGED <<running, step_mode, steps, engine>>
          ELSE Return

\* Lines 46-47.
KeyEscape ==
    /\ at = "events"
    /\ Followed
    /\ running' = FALSE
    /\ UNCHANGED <<at, step_mode, step_accum, steps, engine>>

\* Lines 49-50: N steps the engine in step mode, and does nothing otherwise.
KeyN ==
    /\ at = "events"
    /\ Followed
    /\ ~paused
    /\ IF step_mode
       THEN /\ step_forward
            /\ steps' = steps + 1
            /\ UNCHANGED <<at, running, step_mode, step_accum>>
       ELSE UNCHANGED vars

\* Lines 51-53.
KeyM ==
    /\ at = "events"
    /\ Followed
    /\ ~paused
    /\ step_mode' = ~step_mode
    /\ step_accum' = 0
    /\ UNCHANGED <<at, running, steps, engine>>

\* Lines 54-55: a longer period (or the same, at the lowest speed).
KeyMinus ==
    /\ at = "events"
    /\ Followed
    /\ ~paused
    /\ \E c \in 0 .. step_accum :
          /\ c >= step_accum - 1
          /\ step_accum' = c
    /\ UNCHANGED <<at, running, step_mode, steps, engine>>

\* Lines 56-57: a shorter period (or the same, at the highest speed).
KeyEquals ==
    /\ at = "events"
    /\ Followed
    /\ ~paused
    /\ \E c \in step_accum .. MaxAccum :
          /\ c <= step_accum + 1
          /\ step_accum' = c
    /\ UNCHANGED <<at, running, step_mode, steps, engine>>

\* Lines 58-65: W, S, A, D.
KeyDir ==
    /\ at = "events"
    /\ Followed
    /\ ~paused
    /\ \E new_dir \in Dirs : change_dir(new_dir)
    /\ UNCHANGED loop

\* Line 30: the frame's events are all handled.
EventsDone ==
    /\ at = "events"
    /\ Followed
    /\ at' = "advance"
    /\ UNCHANGED <<running, step_mode, step_accum, steps, engine>>

\* Lines 68-71: one pass of the while loop.
Advance ==
    /\ at = "advance"
    /\ ~paused /\ ~step_mode
    /\ step_accum >= 1
    /\ Followed
    /\ step_accum' = step_accum - 1
    /\ step_forward
    /\ steps' = steps + 1
    /\ UNCHANGED <<at, running, step_mode>>

\* Lines 73-97, once the while loop is over: the game-over screen when the
\* board is finished ("restart" calls reset_board), else the frame is drawn.
ShowBoard ==
    /\ at = "advance"
    /\ paused \/ step_mode \/ step_accum < 1
    /\ IF game_over
       THEN \E choice \in {"restart", "quit", "quit_window"} :
               IF choice = "restart"
               THEN /\ pc' = "green1"
                    /\ snake' = << >>
                    /\ greens' = << >>
                    /\ red' = None
                    /\ head_dir' = None
                    /\ game_over' = None
                    /\ outcome' = "call"
                    /\ asked' = None
                    /\ step_accum' = 0
                    /\ step_mode' = TRUE
                    /\ steps' = 0
                    /\ at' = "reset"
                    /\ UNCHANGED <<grid_size, running>>
               ELSE Return
       ELSE /\ at' = "frame"
            /\ UNCHANGED <<running, step_mode, step_accum, steps, engine>>

game_loop ==
    \/ reset_board
    \/ FrameStart
    \/ Quit
    \/ KeySpace
    \/ KeyEscape
    \/ KeyN
    \/ KeyM
    \/ KeyMinus
    \/ KeyEquals
    \/ KeyDir
    \/ EventsDone
    \/ Advance
    \/ ShowBoard

LoopSpec == LoopInit /\ [][game_loop]_vars

----------------------------------------------------------------------------
\* Properties.  They are stated on the board itself; a transition is a tick
\* when the branch it records is one of step_forward's.

Ticked == outcome' \in {"collision", "grow", "shrink", "starve", "move"}

\* head + unit vector of head_dir
Ahead == <<snake[1][1] + DIR[head_dir][1], snake[1][2] + DIR[head_dir][2]>>

SnakeCells == {snake[i] : i \in 1 .. Len(snake)}

GreenCells == {greens[i] : i \in 1 .. Len(greens)}

\* The tick does not collide: the cell ahead is on the grid and off the snake.
FreeAhead == Ahead \in Cells /\ Ahead \notin SnakeCells

\* C1: in every reachable state the snake has no duplicate positions.
C1_SnakeDistinct ==
    \A i, j \in 1 .. Len(snake) : i # j => snake[i] # snake[j]

\* A snake that grew to five cells and has bent back next to its own body.
C1_Witness ==
    /\ outcome = "grow"
    /\ Len(snake) >= 5
    /\ \E i \in 4 .. Len(snake) :
          (snake[1][1] - snake[i][1]) * (snake[1][1] - snake[i][1])
        + (snake[1][2] - snake[i][2]) * (snake[1][2] - snake[i][2]) = 1

\* C2: in every reachable state no growth item lies on a snake cell (after a
\* growth tick the relocated item is off the new snake, new head included).
C2_GreensOffSnake == GreenCells \cap SnakeCells = {}

\* C3: in every reachable state the shrink item does not lie on a snake cell
\* (after a shrink tick the redrawn item is off the new snake, new head
\* included).
C3_RedOffSnake == red \notin SnakeCells

\* C4: in every reachable state the two growth items and the shrink item are
\* three pairwise distinct cells.
C4_ItemsDistinct ==
    /\ Len(greens) = 2
    /\ greens[1] # greens[2]
    /\ red # greens[1]
    /\ red # greens[2]

\* C5: a tick on a board whose game_over is true changes none of snake,
\* greens, red, head_dir, game_over.
C5_TickAfterGameOverIsNoOp ==
    [][(game_over /\ Ticked) => board' = board]_vars

\* C6: once game_over is true, no step_forward or change_dir call makes it
\* false.
C6_GameOverAbsorbing == [][game_over => game_over']_vars

\* Calls of both kinds have been made on a finished board.
C6_Witness == game_over /\ outcome \in {"move", "grow", "shrink", "dir"}

\* C7: a tick on a running board whose cell ahead is off the grid or on any
\* snake cell (the tail included) sets game_over and leaves snake, greens,
\* red and head_dir as they were.
C7_CollisionFrame ==
    [][(Ticked /\ ~game_over /\ ~FreeAhead) =>
          /\ game_over'
          /\ snake' = snake
          /\ greens' = greens
          /\ red' = red
          /\ head_dir' = head_dir]_vars

\* The game has just ended on a collision with the snake's own tail cell.
C7_Witness ==
    /\ outcome = "collision"
    /\ game_over
    /\ Len(snake) >= 4
    /\ Ahead = snake[Len(snake)]

\* C8 as stated: a tick that moves the head onto the shrink item with a snake
\* longer than 1 leaves a snake two cells shorter.
C8_ShrinkByTwo ==
    [][(Ticked /\ FreeAhead /\ Ahead = red /\ Len(snake) > 1) =>
          Len(snake') = Len(snake) - 2]_vars

\* C8 amended: a non-colliding tick whose cell ahead holds the shrink item and
\* no growth item, with a snake longer than 1, leaves the new head followed by
\* the old snake without its last two cells: one cell shorter.
C8_ShrinkByOne ==
    [][(Ticked /\ FreeAhead /\ Ahead = red /\ Ahead \notin GreenCells
           /\ Len(snake) > 1) =>
          /\ Len(snake') = Len(snake) - 1
          /\ snake' = <<Ahead>> \o SubSeq(snake, 1, Len(snake) - 2)]_vars

\* A snake of two cells has just eaten the shrink item.
C8_Witness == outcome = "shrink" /\ Len(snake) = 1 /\ ~game_over

\* C9: a non-colliding tick whose cell ahead holds a growth item leaves the
\* cell ahead followed by the whole old snake.
C9_GrowKeepsTail ==
    [][(Ticked /\ FreeAhead /\ Ahead \in GreenCells) =>
          /\ snake' = <<Ahead>> \o snake
          /\ Len(snake') = Len(snake) + 1]_vars

\* The initial snake has just eaten a growth item.
C9_Witness == outcome = "grow" /\ Len(snake) = 4 /\ ~game_over

\* C10: a non-colliding tick whose cell ahead holds no item leaves the cell
\* ahead followed by the old snake without its last cell, and leaves greens,
\* red and game_over as they were.
C10_PlainMove ==
    [][(Ticked /\ FreeAhead /\ Ahead \notin GreenCells /\ Ahead # red) =>
          /\ snake' = <<Ahead>> \o SubSeq(snake, 1, Len(snake) - 1)
          /\ Len(snake') = Len(snake)
          /\ greens' = greens
          /\ red' = red
          /\ game_over' = game_over]_vars

\* A running snake has just made a plain move.
C10_Witness == outcome = "move" /\ ~game_over /\ Len(snake) >= 2

\* The vector from the head to the neck of a snake of two cells or more.
HeadToNeck == <<snake[2][1] - snake[1][1], snake[2][2] - snake[1][2]>>

\* C11: a tick that moves a snake of one cell onto the shrink item sets
\* game_over and leaves the snake as it was; in every reachable state the
\* snake has at least one cell.
C11_StarveKeepsSnake ==
    /\ [](Len(snake) >= 1)
    /\ [][(Ticked /\ FreeAhead /\ Ahead = red /\ Len(snake) = 1) =>
             (game_over' /\ snake' = snake)]_vars

\* A snake of one cell has just moved onto the shrink item.
C11_Witness == outcome = "starve" /\ game_over /\ Len(snake) = 1

C13_NoReversal ==
    (~game_over /\ Len(snake) >= 2) =>
        (DIR[head_dir] # HeadToNeck /\ Ahead # snake[2])

\* On a running board a snake shrunk to two cells was asked to reverse.
C13_Witness ==
    /\ ~game_over
    /\ Len(snake) = 2
    /\ outcome = "dir"
    /\ DIR[asked] = HeadToNeck

\* C14: step_forward never changes head_dir.
C14_StepKeepsHeading == [][Ticked => head_dir' = head_dir]_vars

\* A tick has just run into a wall, still heading for it.
C14_Witness == outcome = "collision" /\ Ahead \notin Cells

\* C15: a tick on a running board whose cell ahead is on the grid, off the
\* snake and not (the shrink item, with a snake of one cell) leaves game_over
\* false; change_dir never changes game_over.
C15_GameOverOnlyByCollisionOrStarve ==
    [][/\ (Ticked /\ ~game_over /\ FreeAhead
             /\ ~(Ahead = red /\ Len(snake) = 1)) => ~game_over'
       /\ (outcome' = "dir") => (game_over' = game_over)]_vars

\* A running snake has just eaten the shrink item and goes on running.
C15_Witness == ~game_over /\ outcome = "shrink" /\ Len(snake) <= 2

\* C20: whenever the next tick has to place a growth or shrink item again,
\* its rejection loop has a cell it accepts.
C20_RespawnNeverStuck ==
    /\ (FreeAhead /\ Ahead \in GreenCells) =>
          Respawn(Remove(greens, Ahead), snake) # {}
    /\ (FreeAhead /\ Ahead \notin GreenCells /\ Ahead = red) =>
          Respawn(greens, snake) # {}

\* The last growth has filled the whole grid with snake.
C20_Witness == outcome = "grow" /\ Len(snake) = grid_size * grid_size

\* A cell of the grid, stated on the coordinates.
OnGrid(c) ==
    c[1] >= 0 /\ c[1] < grid_size /\ c[2] >= 0 /\ c[2] < grid_size

\* init_board has returned a board for a grid of side 3 or more.
Initialized == pc = "done" /\ outcome = "init" /\ grid_size >= 3

\* C16: after init_board(grid_size >= 3), game_over is false, the two greens
\* and red are three distinct cells of the grid, and the snake has exactly 3
\* cells, none of them an item cell.
C16_InitBoard ==
    Initialized =>
        /\ game_over = FALSE
        /\ Len(greens) = 2
        /\ greens[1] # greens[2]
        /\ red # greens[1]
        /\ red # greens[2]
        /\ OnGrid(greens[1]) /\ OnGrid(greens[2]) /\ OnGrid(red)
        /\ Len(snake) = 3
        /\ SnakeCells \cap (GreenCells \cup {red}) = {}

\* A board returned for the largest grid, with an apple next to the head.
C16_Witness ==
    /\ Initialized
    /\ grid_size = GridSize
    /\ Ahead \in GreenCells \cup {red}

\* The cell on the far side of the head from the neck.
Away == <<snake[1][1] - HeadToNeck[1], snake[1][2] - HeadToNeck[2]>>

\* C17: after init_board(grid_size >= 3), the cell ahead is on the grid and
\* off the snake, and head_dir points away from the neck whenever the cell
\* away from the neck is itself on the grid and off the snake.
C17_InitHeading ==
    Initialized =>
        /\ OnGrid(Ahead)
        /\ Ahead \notin SnakeCells
        /\ (OnGrid(Away) /\ Away \notin SnakeCells) => Ahead = Away

\* A board whose head has its back to a wall: head_dir was drawn again.
C17_Witness == Initialized /\ ~OnGrid(Away) /\ Ahead # Away

\* C18: init_board called with grid_size < 3 reports an error: the call is
\* at its first statement or has raised, it never goes on to place items.
C18_SmallGridRejected == grid_size < 3 => pc \in {"green1", "raised"}

\* C19: for grid_size >= 3 no loop of init_board is stuck: the inner loop of
\* place_snake has a step to accept from every partial snake, some walk
\* avoids the three apples, and some direction is a valid first heading.
C19_InitNeverStuck ==
    grid_size >= 3 =>
        /\ pc = "walk" => WalkSteps(snake) # {}
        /\ pc = "head" => place_snake(greens[1], greens[2], red) # {}
        /\ pc = "heading" => \E d \in Dirs : ~BadHeading(snake, d)

\* The walk has two cells and a single step left to accept.
C19_Witness ==
    /\ grid_size >= 3
    /\ pc = "walk"
    /\ Len(snake) = 2
    /\ Cardinality(WalkSteps(snake)) = 1

\* C21: a tick applies one outcome, tested in the order collision, growth,
\* shrink, plain move: a colliding tick leaves snake, greens and red as they
\* were even with an item on the cell ahead, and a non-colliding tick onto a
\* cell that holds a green and red grows the snake and leaves red in place.
C21_OneOutcomeInOrder ==
    [][/\ (Ticked /\ ~FreeAhead) =>
             (snake' = snake /\ greens' = greens /\ red' = red)
       /\ (Ticked /\ FreeAhead /\ Ahead \in GreenCells /\ Ahead = red) =>
             /\ red' = red
             /\ snake' = <<Ahead>> \o snake
             /\ game_over' = game_over
             /\ Len(greens') = 2]_vars

\* The snake has just grown onto a cell that held a green and red: red is
\* still there, under the head.
C21_Witness == outcome = "grow" /\ red = snake[1]

\* C22: a tick that ends the game because a snake of one cell moved onto the
\* shrink item leaves greens and red as they were.
C22_StarveKeepsItems ==
    [][(Ticked /\ FreeAhead /\ Ahead = red /\ Len(snake) = 1) =>
          (greens' = greens /\ red' = red)]_vars

\* C23: in every reachable state every snake cell is on the grid and two
\* consecutive snake cells are one unit step apart, so the head-to-neck
\* direction of a snake of two cells or more is one of the four directions.
C23_SnakeIsAPath ==
    /\ \A i \in 1 .. Len(snake) : OnGrid(snake[i])
    /\ \A i \in 1 .. Len(snake) - 1 :
          \/ /\ snake[i][1] = snake[i + 1][1]
             /\ snake[i][2] - snake[i + 1][2] \in {-1, 1}
          \/ /\ snake[i][2] = snake[i + 1][2]
             /\ snake[i][1] - snake[i + 1][1] \in {-1, 1}
    /\ Len(snake) >= 2 => get_neck_dir(snake) \in Dirs

\* A snake that grew and then shrank back to three cells.
C23_Witness == outcome = "shrink" /\ Len(snake) = 3

C25_NoStepOnFinishedBoard ==
    [][steps' = steps + 1 => game_over = FALSE]_vars

====
